---- MODULE Spec2Model ----
(***************************************************************************)
(* A model of deepchem/models/tf_new_models/graph_topology.py:            *)
(*   merge_two_dicts, merge_dicts, GraphTopology.batch_to_feed_dict,       *)
(*   DTNNGraphTopology.batch_to_feed_dict, DTNNGraphTopology.gauss_expand. *)
(*                                                                         *)
(* Floating-point numbers are modelled as exact rationals <<n, d>> in      *)
(* lowest terms (d > 0).  np.exp is modelled symbolically: exp(q) is the   *)
(* tagged value <<"exp", n, d>> for q = n/d # 0 and 1.0 for q = 0, so two  *)
(* results are equal exactly when their exponents are.  numpy arrays are   *)
(* buffers in a heap; a variable or a returned tensor is an address, so a  *)
(* view (batch[:]) and its base array are the same address.                *)
(***************************************************************************)
EXTENDS Integers, Naturals, Sequences, FiniteSets, TLC

----------------------------------------------------------------------------
(* Bounds of the model *)

\* atomic numbers drawn for the Coulomb-matrix diagonal are 0..MaxZ
MaxZ == 2
\* input matrix entries lie on the grid of multiples of 1/Den
Den == 16
\* n_distance is drawn from 1..MaxNDist
MaxNDist == 2
\* at most MaxCalls calls of batch_to_feed_dict on the same topology and batch
MaxCalls == 2
\* merge_dicts is given lists of at most MaxDicts dictionaries
MaxDicts == 3
\* atom-number recovery is run on the atomic numbers 0..MaxAtomicNumber
MaxAtomicNumber == 118
\* gauss_expand is run with 1..MaxCenters centers
MaxCenters == 2
\* GraphTopology.batch_to_feed_dict is given batches of 1..MaxGraphMols molecules
MaxGraphMols == 3

----------------------------------------------------------------------------
(* Exact rational arithmetic (the model of float arithmetic) *)

Abs(x) == IF x < 0 THEN -x ELSE x

RECURSIVE GCD(_, _)
GCD(a, b) == IF b = 0 THEN a ELSE GCD(b, a % b)

\* the rational n/d (d # 0) in lowest terms with a positive denominator
Rat(n, d) ==
  LET g == GCD(Abs(n), Abs(d))
      s == IF d < 0 THEN -1 ELSE 1
  IN  <<(s * n) \div g, (s * d) \div g>>

RInt(k) == <<k, 1>>
RAdd(a, b) == Rat(a[1] * b[2] + b[1] * a[2], a[2] * b[2])
RSub(a, b) == Rat(a[1] * b[2] - b[1] * a[2], a[2] * b[2])
RMul(a, b) == Rat(a[1] * b[1], a[2] * b[2])
RDiv(a, b) == Rat(a[1] * b[2], a[2] * b[1])
RNeg(a) == <<-a[1], a[2]>>
RSquare(a) == RMul(a, a)
RPos(a) == a[1] > 0

\* a float value stored in a tensor: a rational, or exp of a nonzero rational
FVal(a) == <<"val", a[1], a[2]>>
FZero == FVal(RInt(0))
FOne == FVal(RInt(1))

\* np.exp
Exp(q) == IF q[1] = 0 THEN FOne ELSE <<"exp", q[1], q[2]>>

----------------------------------------------------------------------------
(* Unbounded naturals, for comparing twelfth powers: little-endian limbs   *)
(* in base 100                                                             *)

RECURSIVE BigMulCarry(_, _, _)
BigMulCarry(b, m, carry) ==
  IF b = <<>>
    THEN IF carry = 0 THEN <<>>
         ELSE <<carry % 100>> \o BigMulCarry(<<>>, m, carry \div 100)
    ELSE LET t == Head(b) * m + carry
         IN  <<t % 100>> \o BigMulCarry(Tail(b), m, t \div 100)

\* b * m for a small natural m
BigMul(b, m) == IF m = 0 THEN <<>> ELSE BigMulCarry(b, m, 0)

RECURSIVE BigMulPow(_, _, _)
\* b * m^e
BigMulPow(b, m, e) == IF e = 0 THEN b ELSE BigMulPow(BigMul(b, m), m, e - 1)

BigOne == <<1>>

RECURSIVE BigLeqFrom(_, _, _)
BigLeqFrom(a, b, i) ==
  IF i = 0 THEN TRUE
  ELSE IF a[i] # b[i] THEN a[i] < b[i]
  ELSE BigLeqFrom(a, b, i - 1)

\* a <= b
BigLeq(a, b) ==
  IF Len(a) # Len(b) THEN Len(a) < Len(b) ELSE BigLeqFrom(a, b, Len(a))

----------------------------------------------------------------------------
(* Atom-number recovery: np.round(np.power(2 * c, 1 / 2.4)) as int *)

\* x^(1/2.4) >= h/2 for a rational x >= 0 and a natural h, decided exactly:
\* x^(5/12) >= h/2  <=>  h^12 * xd^5 <= 2^12 * xn^5
PowerGeq(x, h) ==
  BigLeq(BigMulPow(BigMulPow(BigOne, h, 12), x[2], 5),
         BigMulPow(BigMulPow(BigOne, 2, 12), x[1], 5))

RECURSIVE RoundPowerIn(_, _, _)
\* the number of k >= 0 with x^(1/2.4) >= k + 1/2, by bisection: every
\* k < lo is such a k and no k >= hi is
RoundPowerIn(x, lo, hi) ==
  IF lo >= hi THEN lo
  ELSE LET mid == (lo + hi) \div 2
       IN  IF PowerGeq(x, 2 * mid + 1)
             THEN RoundPowerIn(x, mid + 1, hi)
             ELSE RoundPowerIn(x, lo, mid)

\* np.round(np.power(x, 1 / 2.4)) for x >= 0: the number of half-integers
\* k + 1/2 that x^(1/2.4) reaches (x^(1/2.4) is never exactly k + 1/2 for a
\* rational x, so round-half-even never applies; x^(1/2.4) < x + 2)
RoundPower(x) == RoundPowerIn(x, 0, (x[1] \div x[2]) + 2)

\* the same with the factor 2 of line 225 left out
atom_number_of_nofactor(c) == RoundPower(c)

\* one entry of atom_number after line 225
atom_number_of(c) == RoundPower(RMul(RInt(2), c))

\* the sign is taken after a cast of the diagonal to int
sign_truncated(c) == RInt(IF c[1] \div c[2] > 0 THEN 1 ELSE 0)

\* np.sign, one entry of atom_mask (line 223)
sign(c) == RInt(IF c[1] > 0 THEN 1 ELSE IF c[1] < 0 THEN -1 ELSE 0)

RECURSIVE CoulombFloorIn(_, _, _)
\* the largest n in lo .. hi - 1 with n/Den <= 0.5 * Z^2.4, by bisection:
\* n/Den <= 0.5 * Z^2.4  <=>  32 * n^5 <= Z^12 * Den^5
CoulombFloorIn(Z, lo, hi) ==
  IF hi - lo <= 1 THEN lo
  ELSE LET mid == (lo + hi) \div 2
       IN  IF BigLeq(BigMulPow(<<32>>, mid, 5),
                     BigMulPow(BigMulPow(BigOne, Z, 12), Den, 5))
             THEN CoulombFloorIn(Z, mid, hi)
             ELSE CoulombFloorIn(Z, lo, mid)

\* The Coulomb-matrix diagonal 0.5 * Z^2.4 of atomic number Z, as the input
\* interface defines it, rounded down to the grid (0.5 * Z^2.4 < Z^3 / 2 + 1)
CoulombFloor(Z) == CoulombFloorIn(Z, 0, Den * ((Z * Z * Z) \div 2 + 1))

\* ... and the grid values next to it: a stored float is the real value
\* rounded, in either direction
CoulombDiag(Z) ==
  LET n == CoulombFloor(Z)
  IN  IF Z = 0 THEN {Rat(0, Den)}
      ELSE {Rat(n, Den), Rat(n + 1, Den)}

----------------------------------------------------------------------------
(* DTNNGraphTopology.gauss_expand *)

\* the bell is evaluated at distance + step_size
gauss_expand_shifted(distance, nd, dmin, dmax) ==
  LET step_size == RDiv(RSub(dmax, dmin), RInt(nd))
      steps == [i \in 1 .. nd |-> RAdd(dmin, RMul(RInt(i - 1), step_size))]
  IN  [i \in 1 .. nd |->
         Exp(RNeg(RDiv(RSquare(RSub(RAdd(distance, step_size), steps[i])),
                       RMul(RInt(2), RSquare(step_size)))))]

\* lines 256-260; entry i of the result is index i - 1 of the numpy vector
gauss_expand(distance, nd, dmin, dmax) ==
  LET step_size == RDiv(RSub(dmax, dmin), RInt(nd))
      steps == [i \in 1 .. nd |-> RAdd(dmin, RMul(RInt(i - 1), step_size))]
      distance_vector ==
        [i \in 1 .. nd |->
           Exp(RNeg(RDiv(RSquare(RSub(distance, steps[i])),
                         RMul(RInt(2), RSquare(step_size)))))]
  IN  distance_vector

----------------------------------------------------------------------------
(* State *)

VARIABLES
  n_distance,  \* self.n_distance of the DTNNGraphTopology object
  heap,        \* array storage: address -> contents of the buffer
  batch,       \* the caller's Coulomb-matrix batch array (an address)
  feed,        \* dict_DTNN returned by the latest call (slot -> address)
  first,       \* dict_DTNN returned by the first call
  entry,       \* contents of the batch array when the latest call began
  calls,       \* number of calls made so far
  pc,          \* position of a run of a pure function: "ready" or "done"
  args,        \* arguments of that run
  result       \* its return value

vars == <<n_distance, heap, batch, feed, first, entry, calls, pc, args, result>>

\* default arguments distance_min=-1., distance_max=18. of __init__
distance_min == -1
distance_max == 18

----------------------------------------------------------------------------
(* DTNNGraphTopology.batch_to_feed_dict *)

\* shape of a batch array B, a function on the index triples <<im, ir, ie>>
Mols(B) == {c[1] : c \in DOMAIN B}
Atoms(B) == {c[2] : c \in DOMAIN B}

\* the index triples in the order the three nested loops visit them
CellOrder(B) ==
  LET nm == Cardinality(Mols(B))
      na == Cardinality(Atoms(B))
  IN  [k \in 1 .. nm * na * na |->
         <<(k - 1) \div (na * na), ((k - 1) \div na) % na, (k - 1) % na>>]

\* element != 0 in place of element > 0
pair_test_nonzero(element, ir, ie) == element[1] # 0 /\ ir # ie

\* the test of line 237
pair_test(element, ir, ie) == RPos(element) /\ ir # ie

\* the product in place of the quotient
pair_distance_product(zz, element) == RMul(RInt(zz), element)

\* ZiZj[im, ir, ie] / element, line 240
pair_distance(zz, element) == RDiv(RInt(zz), element)

\* the address of distance_matrix_mask = batch[:] (line 233): basic slicing of
\* an ndarray gives a view, whose storage is the storage of batch
mask_storage(b, fresh) == b

\* lines 247-252, keyed by placeholder
dict_DTNN_of(an, am, dm, mask) ==
  [atom_number |-> an, atom_mask |-> am,
   distance_matrix |-> dm, distance_matrix_mask |-> mask]

\* One iteration of the loop body (lines 236-245) at index triple c, on heap
\* h: element is read from the batch array as it is at that moment
LoopBody(h, c, b, dm, mask, ZiZj, nd) ==
  LET element == h[b][c]
  IN  IF pair_test(element, c[2], c[3])
        THEN LET h1 == [h EXCEPT ![dm][c] =
                          gauss_expand(pair_distance(ZiZj[c], element), nd,
                                       RInt(distance_min), RInt(distance_max))]
             IN  [h1 EXCEPT ![mask][c] = RInt(1)]
        ELSE LET h1 == [h EXCEPT ![dm][c] = [k \in 1 .. nd |-> FZero]]
             IN  [h1 EXCEPT ![mask][c] = RInt(0)]

RECURSIVE Loop(_, _, _, _, _, _, _, _)
\* lines 234-245: iterations k .. Len(order)
Loop(h, order, k, b, dm, mask, ZiZj, nd) ==
  IF k > Len(order) THEN h
  ELSE Loop(LoopBody(h, order[k], b, dm, mask, ZiZj, nd),
            order, k + 1, b, dm, mask, ZiZj, nd)

\* lines 221-253 on heap h, for the batch array at address b, allocating new
\* arrays from address a on: the heap afterwards and the returned dict
batch_to_feed_dict(h, b, a, nd) ==
  LET B == h[b]
      \* line 222: np.diag copies each diagonal into a new array
      diag == [c \in Mols(B) \X Atoms(B) |-> B[<<c[1], c[2], c[2]>>]]
      atom_mask == [c \in DOMAIN diag |-> sign(diag[c])]
      atom_number == [c \in DOMAIN diag |-> atom_number_of(diag[c])]
      \* lines 226-229
      ZiZj == [c \in DOMAIN B |->
                 atom_number[<<c[1], c[2]>>] * atom_number[<<c[1], c[3]>>]]
      \* lines 230-232: np.concatenate allocates a new array
      distance_matrix == [c \in DOMAIN B |-> [k \in 1 .. nd |-> FVal(B[c])]]
      an == a
      am == a + 1
      dm == a + 2
      mask == mask_storage(b, a + 3)
      h0 == [x \in DOMAIN h \cup {an, am, dm, mask} |->
               IF x = an THEN atom_number
               ELSE IF x = am THEN atom_mask
               ELSE IF x = dm THEN distance_matrix
               ELSE IF x = mask THEN B
               ELSE h[x]]
  IN  [heap |-> Loop(h0, CellOrder(B), 1, b, dm, mask, ZiZj, nd),
       dict |-> dict_DTNN_of(an, am, dm, mask)]

----------------------------------------------------------------------------
(* Inputs *)

\* molecule matrices are 2 x 2
AtomIdx == 0 .. 1

\* diagonal values: the Coulomb diagonals of the atomic numbers 0 .. MaxZ and
\* one small positive value that is no Coulomb diagonal
DiagVals == UNION {CoulombDiag(Z) : Z \in 0 .. MaxZ} \cup {Rat(1, Den)}

\* off-diagonal values: negative, zero, positive
OffVals == {RInt(-1), RInt(0), RInt(2)}

\* one molecule's matrix, as a function on <<ir, ie>>
Molecules ==
  {m \in [AtomIdx \X AtomIdx -> DiagVals \cup OffVals] :
     \A c \in AtomIdx \X AtomIdx :
        IF c[1] = c[2] THEN m[c] \in DiagVals ELSE m[c] \in OffVals}

\* the grid values below 0.5 * Z^2.4
PlainDiagVals == {Rat(CoulombFloor(Z), Den) : Z \in 0 .. MaxZ}

\* symmetric matrices with such a diagonal
PlainMolecules ==
  {m \in Molecules :
     /\ \A c \in AtomIdx \X AtomIdx : m[c] = m[<<c[2], c[1]>>]
     /\ \A i \in AtomIdx : m[<<i, i>>] \in PlainDiagVals}

\* the batch array of a sequence of molecule matrices
BatchOf(ms) ==
  [c \in (0 .. Len(ms) - 1) \X AtomIdx \X AtomIdx |-> ms[c[1] + 1][<<c[2], c[3]>>]]

\* batches of one molecule, and of two plain ones
Batches ==
  {BatchOf(<<m>>) : m \in Molecules}
    \cup {BatchOf(<<m1, m2>>) : m1 \in PlainMolecules, m2 \in PlainMolecules}

NoFeed ==
  [atom_number |-> -1, atom_mask |-> -1,
   distance_matrix |-> -1, distance_matrix_mask |-> -1]

----------------------------------------------------------------------------
(* The DTNN encoder called repeatedly on one batch array *)

Idle == pc = "idle" /\ args = <<>> /\ result = <<>>

Init ==
  /\ n_distance \in 1 .. MaxNDist
  /\ batch = 0
  /\ \E B \in Batches : heap = (0 :> B) /\ entry = B
  /\ feed = NoFeed
  /\ first = NoFeed
  /\ calls = 0
  /\ Idle

\* feed_dict = topology.batch_to_feed_dict(batch)
DTNNCall ==
  /\ calls < MaxCalls
  /\ LET r == batch_to_feed_dict(heap, batch, 1 + 4 * calls, n_distance)
     IN  /\ heap' = r.heap
         /\ feed' = r.dict
         /\ first' = IF calls = 0 THEN r.dict ELSE first
  /\ entry' = heap[batch]
  /\ calls' = calls + 1
  /\ UNCHANGED <<n_distance, batch, pc, args, result>>

Next == DTNNCall

Spec == Init /\ [][Next]_vars

----------------------------------------------------------------------------
(* Claims about DTNNGraphTopology.batch_to_feed_dict, under Spec *)

\* the tensor a slot of the latest returned dict is bound to
Fed(slot) == heap[feed[slot]]

Slots == {"atom_number", "atom_mask", "distance_matrix", "distance_matrix_mask"}

OffDiagonal(c) == c[2] # c[3]

\* every diagonal value that is a Coulomb diagonal of an atomic number
CoulombForm == UNION {CoulombDiag(Z) : Z \in 0 .. MaxZ}

\* C1: after a call the batch array holds the values it held before the call,
\* and no returned tensor is stored in the batch array's storage.
C1_InputUnchanged ==
  calls >= 1 =>
    /\ heap[batch] = entry
    /\ \A slot \in Slots : feed[slot] # batch

\* C2: after a call, every cell that is on the diagonal or whose input value
\* is <= 0 has an all-zero expanded distance vector and distance mask 0.
C2_InvalidPairsZeroed ==
  calls >= 1 =>
    \A c \in DOMAIN entry :
      (~OffDiagonal(c) \/ ~RPos(entry[c])) =>
        /\ Fed("distance_matrix")[c] = [k \in 1 .. n_distance |-> FZero]
        /\ Fed("distance_matrix_mask")[c] = RInt(0)

C2_Witness ==
  /\ calls >= 1
  /\ \E c \in DOMAIN entry :
       /\ OffDiagonal(c) /\ entry[c][1] < 0
       /\ Fed("distance_matrix")[c] = [k \in 1 .. n_distance |-> FZero]
       /\ Fed("distance_matrix_mask")[c] = RInt(0)
  /\ \E c \in DOMAIN entry : ~OffDiagonal(c) /\ RPos(entry[c])

\* the expanded vector and the mask that C3 states for cell c
ExpandedAsClaimed(c) ==
  LET Z == Fed("atom_number")
      zz == Z[<<c[1], c[2]>>] * Z[<<c[1], c[3]>>]
  IN  /\ Fed("distance_matrix")[c] =
           gauss_expand(RDiv(RInt(zz), entry[c]), n_distance,
                        RInt(distance_min), RInt(distance_max))
      /\ Fed("distance_matrix_mask")[c] = RInt(1)

\* C3 as stated: after a call, every off-diagonal cell whose input value v is
\* nonzero holds gauss_expand(Z_i * Z_j / v, ...) and has distance mask 1.
C3_NonzeroPairsExpanded ==
  calls >= 1 =>
    \A c \in DOMAIN entry :
      (OffDiagonal(c) /\ entry[c][1] # 0) => ExpandedAsClaimed(c)

\* C3 amended: after a call, every off-diagonal cell whose input value v is
\* positive holds gauss_expand(Z_i * Z_j / v, ...) and has distance mask 1.
C3_PositivePairsExpanded ==
  calls >= 1 =>
    \A c \in DOMAIN entry :
      (OffDiagonal(c) /\ RPos(entry[c])) => ExpandedAsClaimed(c)

C3_Witness ==
  /\ calls >= 1
  /\ \E c \in DOMAIN entry :
       /\ OffDiagonal(c) /\ RPos(entry[c])
       /\ Fed("atom_number")[<<c[1], c[2]>>] * Fed("atom_number")[<<c[1], c[3]>>] > 1
       /\ ExpandedAsClaimed(c)

C10_Repeatable ==
  calls = 2 => \A slot \in Slots : heap[feed[slot]] = heap[first[slot]]

----------------------------------------------------------------------------
(* Runs of the pure functions: the DTNN state stays empty *)

NoDTNN ==
  /\ n_distance = 0 /\ heap = <<>> /\ batch = 0 /\ entry = <<>>
  /\ feed = NoFeed /\ first = NoFeed /\ calls = 0

DTNNvars == <<n_distance, heap, batch, feed, first, entry, calls>>

----------------------------------------------------------------------------
(* Atom-number recovery on Coulomb diagonals *)

InitRecover ==
  /\ NoDTNN
  /\ pc = "ready"
  /\ \E Z \in 0 .. MaxAtomicNumber : \E c \in CoulombDiag(Z) :
        args = [Z |-> Z, c |-> c]
  /\ result = -1

\* one entry of line 224-225
RecoverCall ==
  /\ pc = "ready"
  /\ result' = atom_number_of(args.c)
  /\ pc' = "done"
  /\ UNCHANGED <<args, DTNNvars>>

NextRecover == RecoverCall

SpecRecover == InitRecover /\ [][NextRecover]_vars

\* C9: for a diagonal value c = 0.5 * Z^2.4 of an integer Z >= 0 (stored as a
\* grid value next to it), the recovered atomic number round((2c)^(1/2.4)) is Z.
C9_RecoveryRoundTrips == pc = "done" => result = args.Z

C9_Witness == pc = "done" /\ args.Z = MaxAtomicNumber /\ result = MaxAtomicNumber

----------------------------------------------------------------------------
(* gauss_expand *)

\* center k of the expansion, as the claim states it: distance_min + k * step
\* with step = (distance_max - distance_min) / n_distance
CenterOf(k, nd, dmin, dmax) ==
  RAdd(dmin, RMul(RInt(k), RDiv(RSub(dmax, dmin), RInt(nd))))

InitGauss ==
  /\ NoDTNN
  /\ pc = "ready"
  /\ \E nd \in 1 .. MaxCenters, dmin \in -1 .. 1, dmax \in {2, 18} :
       \E j \in -1 .. 2 * nd + 1 :
          \* the centers, the points half-way between them, and points outside
          args = [distance |-> RAdd(RInt(dmin), RMul(Rat(j, 2),
                                  RDiv(RInt(dmax - dmin), RInt(nd)))),
                  n_distance |-> nd,
                  distance_min |-> RInt(dmin),
                  distance_max |-> RInt(dmax)]
  /\ result = <<>>

GaussCall ==
  /\ pc = "ready"
  /\ result' = gauss_expand(args.distance, args.n_distance,
                            args.distance_min, args.distance_max)
  /\ pc' = "done"
  /\ UNCHANGED <<args, DTNNvars>>

NextGauss == GaussCall

SpecGauss == InitGauss /\ [][NextGauss]_vars

\* C8: gauss_expand returns a vector of length n_distance, and at
\* distance = distance_min + k * step its entry at index k is 1.0.
C8_LengthAndPeak ==
  pc = "done" =>
    /\ DOMAIN result = 1 .. args.n_distance
    /\ \A k \in 0 .. args.n_distance - 1 :
         args.distance = CenterOf(k, args.n_distance, args.distance_min,
                                  args.distance_max)
           => result[k + 1] = FOne

C8_Witness ==
  /\ pc = "done"
  /\ args.n_distance >= 2
  /\ args.distance = CenterOf(1, args.n_distance, args.distance_min,
                              args.distance_max)
  /\ result[2] = FOne
  /\ result[1] # FOne

----------------------------------------------------------------------------
(* merge_two_dicts, merge_dicts: a dict is a function on its key set *)

\* the earlier dictionary wins a collision
merge_two_dicts_keep(x, y) ==
  [k \in DOMAIN x \cup DOMAIN y |-> IF k \in DOMAIN x THEN x[k] ELSE y[k]]

\* lines 17-20: z = x.copy(); z.update(y)
merge_two_dicts(x, y) ==
  [k \in DOMAIN x \cup DOMAIN y |-> IF k \in DOMAIN y THEN y[k] ELSE x[k]]

RECURSIVE merge_from(_, _, _)
\* the loop of lines 26-27 from position i on
merge_from(merged, l, i) ==
  IF i > Len(l) THEN merged
  ELSE merge_from(merge_two_dicts(merged, l[i]), l, i + 1)

\* lines 23-28
merge_dicts(l) == merge_from(<<>>, l, 1)

DictKeys == {"a", "b"}
DictVals == {1, 2}
Dicts == UNION {[K -> DictVals] : K \in SUBSET DictKeys}
DictLists == UNION {[1 .. n -> Dicts] : n \in 0 .. MaxDicts}

InitMerge ==
  /\ NoDTNN
  /\ pc = "ready"
  /\ args \in DictLists
  /\ result = <<>>

MergeCall ==
  /\ pc = "ready"
  /\ result' = merge_dicts(args)
  /\ pc' = "done"
  /\ UNCHANGED <<args, DTNNvars>>

NextMerge == MergeCall

SpecMerge == InitMerge /\ [][NextMerge]_vars

\* C5: merge_dicts(l) has as keys the union of the key sets of the dicts in l,
\* each key bound to its value in the last dict of l that has it;
\* merge_dicts([]) is empty.
C5_LastWins ==
  pc = "done" =>
    /\ DOMAIN result = UNION {DOMAIN args[i] : i \in 1 .. Len(args)}
    /\ \A k \in DOMAIN result :
         LET has == {i \in 1 .. Len(args) : k \in DOMAIN args[i]}
             last == CHOOSE i \in has : \A j \in has : j <= i
         IN  result[k] = args[last][k]
    /\ Len(args) = 0 => DOMAIN result = {}

C5_Witness ==
  /\ pc = "done"
  /\ Len(args) >= 2
  /\ \E k \in DictKeys :
       /\ k \in DOMAIN args[1] /\ k \in DOMAIN args[2]
       /\ args[1][k] # args[2][k]
       /\ \A i \in 3 .. Len(args) : k \notin DOMAIN args[i]
       /\ result[k] = args[2][k]

----------------------------------------------------------------------------
(* ConvMol.agglomerate_mols: the merged batch, as the specification's data  *)
(* model describes it.  A molecule is [deg, adj]: the bond degree of each   *)
(* atom and the neighbours (local 0-based indices) of each atom.            *)

RECURSIVE Concat(_, _, _)
\* f[lo] \o f[lo + 1] \o ... \o f[hi]
Concat(f, lo, hi) == IF lo > hi THEN <<>> ELSE f[lo] \o Concat(f, lo + 1, hi)

\* the atoms <<molecule position, local index>> of the batch, in batch order
AllAtoms(mols) ==
  Concat([m \in 1 .. Len(mols) |->
            [a \in 1 .. Len(mols[m].deg) |-> <<m - 1, a - 1>>]],
         1, Len(mols))

DegreeOf(mols, p) == mols[p[1] + 1].deg[p[2] + 1]

\* the atoms of degree d, in batch order
AtomsOfDeg(mols, d) ==
  SelectSeq(AllAtoms(mols), LAMBDA p : DegreeOf(mols, p) = d)

agglomerate_mols(mols, max_deg, min_deg) ==
  LET bucket == [d \in min_deg .. max_deg |-> AtomsOfDeg(mols, d)]
      \* merged atom order: by degree bucket, then batch order
      order == Concat(bucket, min_deg, max_deg)
      index_of(p) == (CHOOSE i \in 1 .. Len(order) : order[i] = p) - 1
      start(d) == Len(Concat(bucket, min_deg, d - 1))
  IN  [atom_features |-> order,
       deg_slice |-> [r \in 1 .. max_deg - min_deg + 1 |->
                        <<start(min_deg + r - 1), Len(bucket[min_deg + r - 1])>>],
       membership |-> [i \in 1 .. Len(order) |-> order[i][1]],
       deg_adj_lists |->
         [d \in 1 .. max_deg |->
            [r \in 1 .. Len(AtomsOfDeg(mols, d)) |->
               LET p == AtomsOfDeg(mols, d)[r]
                   nbrs == mols[p[1] + 1].adj[p[2] + 1]
               IN  [n \in 1 .. d |-> index_of(<<p[1], nbrs[n]>>)]]]]

----------------------------------------------------------------------------
(* GraphTopology: a placeholder is <<kind, width>> *)

atom_features_placeholder == <<"atom_features", 0>>
deg_slice_placeholder == <<"deg_slice", 0>>
membership_placeholder == <<"membership", 0>>

\* lines 63-69: one placeholder of shape (None, deg) per deg in 1 .. max_deg
deg_adj_lists_placeholders(max_deg) ==
  [i \in 1 .. max_deg |-> <<"deg_adj", i>>]

\* lines 77-82 and 84-89
get_input_placeholders(max_deg) ==
  <<atom_features_placeholder>>
    \o <<deg_slice_placeholder, membership_placeholder>>
    \o deg_adj_lists_placeholders(max_deg)

Min(a, b) == IF a < b THEN a ELSE b

\* dict(list(zip(keys, values)))
dict_zip(keys, values) ==
  LET n == Min(Len(keys), Len(values))
  IN  [k \in {keys[i] : i \in 1 .. n} |->
         values[CHOOSE i \in 1 .. n :
                  keys[i] = k /\ \A j \in 1 .. n : keys[j] = k => j <= i]]

\* range(1, self.max_deg) in place of range(1, self.max_deg + 1)
deg_adj_lists_short(merged, max_deg) ==
  [i \in 1 .. max_deg - 1 |-> merged.deg_adj_lists[i]]

\* lines 130-132
deg_adj_lists_of(merged, max_deg) ==
  [i \in 1 .. max_deg |-> merged.deg_adj_lists[i]]

\* the degree-slice table is fed without its first row
atoms_dict_tail(atoms, merged) ==
  (atom_features_placeholder :> atoms)
    @@ (deg_slice_placeholder :> Tail(merged.deg_slice))
    @@ (membership_placeholder :> merged.membership)

\* lines 137-141
atoms_dict_of(atoms, merged) ==
  (atom_features_placeholder :> atoms)
    @@ (deg_slice_placeholder :> merged.deg_slice)
    @@ (membership_placeholder :> merged.membership)

\* GraphTopology.batch_to_feed_dict, lines 127-142
graph_batch_to_feed_dict(max_deg, min_deg, mols) ==
  LET merged == agglomerate_mols(mols, max_deg, min_deg)
      atoms == merged.atom_features
      deg_adj_lists == deg_adj_lists_of(merged, max_deg)
      deg_adj_dict == dict_zip(deg_adj_lists_placeholders(max_deg), deg_adj_lists)
      atoms_dict == atoms_dict_of(atoms, merged)
  IN  merge_dicts(<<atoms_dict, deg_adj_dict>>)

\* the molecules of the batches: a lone atom, a bonded pair, a chain of three
\* (the middle atom last), a triangle, a centre with three leaves
MolCatalog ==
  { [deg |-> <<0>>, adj |-> << <<>> >>],
    [deg |-> <<1, 1>>, adj |-> << <<1>>, <<0>> >>],
    [deg |-> <<1, 1, 2>>, adj |-> << <<2>>, <<2>>, <<0, 1>> >>],
    [deg |-> <<2, 2, 2>>, adj |-> << <<1, 2>>, <<0, 2>>, <<0, 1>> >>],
    [deg |-> <<1, 1, 1, 3>>, adj |-> << <<3>>, <<3>>, <<3>>, <<0, 1, 2>> >>] }

\* the molecules whose atom degrees all lie in min_deg .. max_deg
MolsWithin(max_deg, min_deg) ==
  {m \in MolCatalog :
     \A a \in 1 .. Len(m.deg) : m.deg[a] \in min_deg .. max_deg}

InitGraph ==
  /\ NoDTNN
  /\ pc = "ready"
  /\ \E max_deg \in 1 .. 3, min_deg \in 0 .. 1 :
       \E n \in 1 .. MaxGraphMols :
         \E mols \in [1 .. n -> MolsWithin(max_deg, min_deg)] :
            args = [max_deg |-> max_deg, min_deg |-> min_deg, batch |-> mols]
  /\ result = <<>>

GraphCall ==
  /\ pc = "ready"
  /\ result' = graph_batch_to_feed_dict(args.max_deg, args.min_deg, args.batch)
  /\ pc' = "done"
  /\ UNCHANGED <<args, DTNNvars>>

NextGraph == GraphCall

SpecGraph == InitGraph /\ [][NextGraph]_vars

\* C6: the returned mapping has exactly the placeholders of
\* get_input_placeholders() as keys, max_deg + 3 of them, and the adjacency
\* placeholder of width d is bound to the merged batch's adjacency list for
\* degree d, for every d in 1 .. max_deg.
C6_KeysAndAdjacency ==
  pc = "done" =>
    LET inputs == get_input_placeholders(args.max_deg)
    IN  /\ DOMAIN result = {inputs[i] : i \in 1 .. Len(inputs)}
        /\ Cardinality(DOMAIN result) = args.max_deg + 3
        /\ \A d \in 1 .. args.max_deg :
             result[<<"deg_adj", d>>] =
               agglomerate_mols(args.batch, args.max_deg,
                                args.min_deg).deg_adj_lists[d]

C6_Witness ==
  /\ pc = "done"
  /\ args.max_deg = 3
  /\ Len(result[<<"deg_adj", 3>>]) = 1
  /\ Len(result[<<"deg_adj", 1>>]) = 5
  /\ Cardinality(DOMAIN result) = 6

\* the number of atoms of a batch
RECURSIVE TotalAtoms(_)
TotalAtoms(mols) ==
  IF mols = <<>> THEN 0 ELSE Len(Head(mols).deg) + TotalAtoms(Tail(mols))

====
